---- MODULE Spec2Model ----
(***************************************************************************)
(* A model of fig/project.py: the ordering of service dicts                *)
(* (sort_service_dicts), the construction of a Project from them           *)
(* (Project.from_dicts), name lookup (get_service, get_services) and the   *)
(* bulk lifecycle calls that iterate the selected services.                *)
(***************************************************************************)
EXTENDS Integers, Sequences, FiniteSets, TLC

\* ------------------------------------------------------------------ bounds
\* Largest number of service dicts in a batch (and of distinct names).
MaxSpecs == 3
\* Largest total number of link entries in a batch.
MaxLinks == 3
\* Largest length of the service_names argument of a bulk call.
MaxNames == 2
\* Largest number of containers one service reports in one list.
MaxContainers == 1

NamePool == <<"A", "B", "C", "D", "E", "F">>
Names == {NamePool[i] : i \in 1..MaxSpecs}
\* A name no dict of the batch bears.
Missing == "missing"

\* ----------------------------------------------------------------- helpers
InSeq(x, s) == \E i \in 1..Len(s) : s[i] = x
Range(s) == {s[i] : i \in 1..Len(s)}
Last(s) == s[Len(s)]
Front(s) == SubSeq(s, 1, Len(s) - 1)
Reverse(s) == [i \in 1..Len(s) |-> s[Len(s) + 1 - i]]

RECURSIVE Flatten(_)
\* sum([...], []): the concatenation of a sequence of sequences.
Flatten(ss) == IF ss = <<>> THEN <<>> ELSE Head(ss) \o Flatten(Tail(ss))

RECURSIVE SeqsUpTo(_, _)
\* All sequences over S of length at most n.
SeqsUpTo(S, n) ==
    IF n = 0 THEN {<<>>}
    ELSE LET shorter == SeqsUpTo(S, n - 1)
         IN  shorter \cup {<<x>> \o t : x \in S, t \in {u \in shorter : Len(u) = n - 1}}

\* All sequences of n distinct names.
RECURSIVE NameOrders(_, _)
NameOrders(free, n) ==
    IF n = 0 THEN {<<>>}
    ELSE UNION {{<<nm>> \o rest : rest \in NameOrders(free \ {nm}, n - 1)} : nm \in free}

\* Where the links of the dicts of a batch of n end in the concatenation of
\* all their links, a sequence of length k.
Cuts(n, k) ==
    {c \in [0..n -> 0..k] :
        /\ c[0] = 0
        /\ c[n] = k
        /\ \A i \in 1..n : c[i - 1] <= c[i]}

\* The batch of dicts bearing the names in this order, the links in flat
\* shared out among them at the cuts.
Batch(names, flat, cuts) ==
    [i \in 1..Len(names) |->
        [name |-> names[i], links |-> SubSeq(flat, cuts[i - 1] + 1, cuts[i])]]

\* ------------------------------------------------------------------- state
VARIABLES
    given,                  \* the batch as passed to from_dicts (never changed)
    service_dicts,          \* the caller's list of dicts (from_dicts mutates the dicts)
    pc,                     \* position of the program
    err,                    \* the exception that ended construction, or "none"
    dependent_services,     \* sort_service_dicts: local
    non_dependent_sevices,  \* sort_service_dicts: local
    sorted_services,        \* sort_service_dicts: local
    ordered,                \* the list sort_service_dicts returned
    project,                \* project.services: the handles, in order
    op,                     \* the bulk call in progress or last made
    service_names,          \* its service_names argument
    selected,               \* what get_services returned to it
    idx,                    \* how many selected services its loop has finished
    calls,                  \* the calls it made on services, in order
    outcome,                \* "none", "running", "returned" or the exception raised
    old,                    \* recreate_containers: (service, container) pairs
    new,                    \* recreate_containers: (service, container) pairs
    l                       \* containers: the containers gathered

sortVars == <<dependent_services, non_dependent_sevices, sorted_services>>
bulkVars == <<op, service_names, selected, idx, calls, outcome, old, new, l>>
vars == <<given, service_dicts, pc, err, sortVars, ordered, project, bulkVars>>

HasLinks(s) == s.links # <<>>

\* next(s for s in services if l == s['name']): index of the first match, 0
\* when the generator is exhausted (StopIteration).
FindDict(services, lnk) ==
    IF \E i \in 1..Len(services) : services[i].name = lnk
    THEN CHOOSE i \in 1..Len(services) :
            /\ services[i].name = lnk
            /\ \A j \in 1..(i - 1) : services[j].name # lnk
    ELSE 0

RECURSIVE ProcessLinks_NoSeenCheck(_, _, _, _)
\* The for loop, were a linked dict without links inserted whether or not
\* it is in sorted_services already.
ProcessLinks_NoSeenCheck(n, links, services, sorted) ==
    IF links = <<>> THEN [err |-> "none", sorted |-> sorted]
    ELSE LET lnk == Head(links)
             k == FindDict(services, lnk)
         IN  IF k = 0 THEN [err |-> "StopIteration", sorted |-> sorted]
             ELSE LET linked_service == services[k]
                  IN  IF InSeq(n.name, linked_service.links)
                      THEN [err |-> "DependencyError", sorted |-> sorted]
                      ELSE ProcessLinks_NoSeenCheck(n, Tail(links), services,
                               IF ~HasLinks(linked_service)
                               THEN <<linked_service>> \o sorted
                               ELSE sorted)

RECURSIVE ProcessLinks_NoCircularCheck(_, _, _, _)
\* The for loop, were the linked dict's links not searched for n's name.
ProcessLinks_NoCircularCheck(n, links, services, sorted) ==
    IF links = <<>> THEN [err |-> "none", sorted |-> sorted]
    ELSE LET lnk == Head(links)
             k == FindDict(services, lnk)
         IN  IF k = 0 THEN [err |-> "StopIteration", sorted |-> sorted]
             ELSE LET linked_service == services[k]
                  IN  ProcessLinks_NoCircularCheck(n, Tail(links), services,
                          IF ~HasLinks(linked_service) /\ ~InSeq(linked_service, sorted)
                          THEN <<linked_service>> \o sorted
                          ELSE sorted)

RECURSIVE ProcessLinks_SkipMissing(_, _, _, _)
\* The for loop, were a link that names no dict passed over.
ProcessLinks_SkipMissing(n, links, services, sorted) ==
    IF links = <<>> THEN [err |-> "none", sorted |-> sorted]
    ELSE LET lnk == Head(links)
             k == FindDict(services, lnk)
         IN  IF k = 0 THEN ProcessLinks_SkipMissing(n, Tail(links), services, sorted)
             ELSE LET linked_service == services[k]
                  IN  IF InSeq(n.name, linked_service.links)
                      THEN [err |-> "DependencyError", sorted |-> sorted]
                      ELSE ProcessLinks_SkipMissing(n, Tail(links), services,
                               IF ~HasLinks(linked_service) /\ ~InSeq(linked_service, sorted)
                               THEN <<linked_service>> \o sorted
                               ELSE sorted)

RECURSIVE ProcessLinks(_, _, _, _)
\* The for loop over n['links']: the exception it raises, if any, and
\* sorted_services as it leaves it.
ProcessLinks(n, links, services, sorted) ==
    IF links = <<>> THEN [err |-> "none", sorted |-> sorted]
    ELSE LET lnk == Head(links)
             k == FindDict(services, lnk)
         IN  IF k = 0 THEN [err |-> "StopIteration", sorted |-> sorted]
             ELSE LET linked_service == services[k]
                  IN  IF InSeq(n.name, linked_service.links)
                      THEN [err |-> "DependencyError", sorted |-> sorted]
                      ELSE ProcessLinks(n, Tail(links), services,
                               IF ~HasLinks(linked_service) /\ ~InSeq(linked_service, sorted)
                               THEN <<linked_service>> \o sorted
                               ELSE sorted)

Init ==
    /\ \E n \in 0..MaxSpecs :
         \E names \in NameOrders(Names, n) :
           \E flat \in SeqsUpTo(Names \cup {Missing}, IF n = 0 THEN 0 ELSE MaxLinks) :
             \E cuts \in Cuts(n, Len(flat)) :
               given = Batch(names, flat, cuts)
    /\ service_dicts = given
    /\ pc = "sort_enter"
    /\ err = "none"
    /\ dependent_services = <<>>
    /\ non_dependent_sevices = <<>>
    /\ sorted_services = <<>>
    /\ ordered = <<>>
    /\ project = <<>>
    /\ op = "none"
    /\ service_names = <<>>
    /\ selected = <<>>
    /\ idx = 0
    /\ calls = <<>>
    /\ outcome = "none"
    /\ old = <<>>
    /\ new = <<>>
    /\ l = <<>>

\* sort_service_dicts, lines 11-15: the partition of the input.
SortEnter ==
    /\ pc = "sort_enter"
    /\ LET dep == SelectSeq(service_dicts, HasLinks)
           flatten_links == Flatten([i \in 1..Len(dep) |-> dep[i].links])
           NonDependent(s) == ~InSeq(s.name, flatten_links) /\ ~HasLinks(s)
       IN  /\ dependent_services' = dep
           /\ non_dependent_sevices' = SelectSeq(service_dicts, NonDependent)
    /\ sorted_services' = <<>>
    /\ pc' = "sort_loop"
    /\ UNCHANGED <<given, service_dicts, err, ordered, project, bulkVars>>

\* The iteration, were the dict taken from the front (pop(0)).
SortStep_PopFront ==
    /\ pc = "sort_loop"
    /\ dependent_services # <<>>
    /\ LET n == Head(dependent_services)
           r == ProcessLinks(n, n.links, service_dicts, Append(sorted_services, n))
       IN  /\ dependent_services' = Tail(dependent_services)
           /\ IF InSeq(n.name, n.links)
              THEN /\ err' = "DependencyError"
                   /\ pc' = "raised"
                   /\ UNCHANGED sorted_services
              ELSE /\ sorted_services' = r.sorted
                   /\ err' = r.err
                   /\ pc' = IF r.err = "none" THEN "sort_loop" ELSE "raised"
    /\ UNCHANGED <<given, service_dicts, non_dependent_sevices, ordered, project, bulkVars>>

\* The iteration, were the last dict read but left in dependent_services.
SortStep_Peek ==
    /\ pc = "sort_loop"
    /\ dependent_services # <<>>
    /\ LET n == Last(dependent_services)
           r == ProcessLinks(n, n.links, service_dicts, Append(sorted_services, n))
       IN  /\ UNCHANGED dependent_services
           /\ IF InSeq(n.name, n.links)
              THEN /\ err' = "DependencyError"
                   /\ pc' = "raised"
                   /\ UNCHANGED sorted_services
              ELSE /\ sorted_services' = r.sorted
                   /\ err' = r.err
                   /\ pc' = IF r.err = "none" THEN "sort_loop" ELSE "raised"
    /\ UNCHANGED <<given, service_dicts, non_dependent_sevices, ordered, project, bulkVars>>

\* One iteration of the while loop, lines 17-32.
SortStep ==
    /\ pc = "sort_loop"
    /\ dependent_services # <<>>
    /\ LET n == Last(dependent_services)
           r == ProcessLinks(n, n.links, service_dicts, Append(sorted_services, n))
       IN  /\ dependent_services' = Front(dependent_services)
           /\ IF InSeq(n.name, n.links)
              THEN /\ err' = "DependencyError"
                   /\ pc' = "raised"
                   /\ UNCHANGED sorted_services
              ELSE /\ sorted_services' = r.sorted
                   /\ err' = r.err
                   /\ pc' = IF r.err = "none" THEN "sort_loop" ELSE "raised"
    /\ UNCHANGED <<given, service_dicts, non_dependent_sevices, ordered, project, bulkVars>>

\* Line 33: the loop is over, the order is returned.
SortReturn ==
    /\ pc = "sort_loop"
    /\ dependent_services = <<>>
    /\ ordered' = non_dependent_sevices \o sorted_services
    /\ pc' = "from_dicts"
    /\ UNCHANGED <<given, service_dicts, err, sortVars, project, bulkVars>>

\* ------------------------------------------------------------- the Project
\* A service handle is an object: id is its identity, links holds the
\* identities of the handles it was constructed with.
Handle(id, name, links) == [id |-> id, name |-> name, links |-> links]

\* Project.get_service: the identity of the first handle bearing the name,
\* 0 for NoSuchService.
get_service(services, name) ==
    IF \E i \in 1..Len(services) : services[i].name = name
    THEN services[CHOOSE i \in 1..Len(services) :
                     /\ services[i].name = name
                     /\ \A j \in 1..(i - 1) : services[j].name # name].id
    ELSE 0

\* del service_dict['links'] on the dict object bearing this name; the same
\* object sits in every list that holds it.
DelLinks(dicts, name) ==
    [i \in 1..Len(dicts) |->
        IF dicts[i].name = name THEN [dicts[i] EXCEPT !.links = <<>>] ELSE dicts[i]]

\* The iteration, were a link name resolved against the whole order, to the
\* handle that the named dict gets, instead of the collection built so far.
FromDictsStep_LinkAhead ==
    /\ pc = "from_dicts"
    /\ Len(project) < Len(ordered)
    /\ LET service_dict == ordered[Len(project) + 1]
           links == [i \in 1..Len(service_dict.links) |->
                        FindDict(ordered, service_dict.links[i])]
       IN  IF InSeq(0, links)
           THEN /\ err' = "NoSuchService"
                /\ pc' = "raised"
                /\ UNCHANGED <<service_dicts, ordered, project>>
           ELSE /\ project' = Append(project,
                        Handle(Len(project) + 1, service_dict.name, links))
                /\ ordered' = DelLinks(ordered, service_dict.name)
                /\ service_dicts' = DelLinks(service_dicts, service_dict.name)
                /\ UNCHANGED <<err, pc>>
    /\ UNCHANGED <<given, sortVars, bulkVars>>

\* Project.from_dicts, one iteration of the for loop (lines 51-58): the next
\* dict of the order is made a Service and appended.
FromDictsStep ==
    /\ pc = "from_dicts"
    /\ Len(project) < Len(ordered)
    /\ LET service_dict == ordered[Len(project) + 1]
           links == [i \in 1..Len(service_dict.links) |->
                        get_service(project, service_dict.links[i])]
       IN  IF InSeq(0, links)
           THEN /\ err' = "NoSuchService"
                /\ pc' = "raised"
                /\ UNCHANGED <<service_dicts, ordered, project>>
           ELSE /\ project' = Append(project,
                        Handle(Len(project) + 1, service_dict.name, links))
                /\ ordered' = DelLinks(ordered, service_dict.name)
                /\ service_dicts' = DelLinks(service_dicts, service_dict.name)
                /\ UNCHANGED <<err, pc>>
    /\ UNCHANGED <<given, sortVars, bulkVars>>

\* Line 59: the Project is returned; the call's arguments and locals are gone.
FromDictsReturn ==
    /\ pc = "from_dicts"
    /\ Len(project) = Len(ordered)
    /\ pc' = "ready"
    /\ given' = <<>>
    /\ service_dicts' = <<>>
    /\ ordered' = <<>>
    /\ dependent_services' = <<>>
    /\ non_dependent_sevices' = <<>>
    /\ sorted_services' = <<>>
    /\ UNCHANGED <<err, project, bulkVars>>

\* get_services, were the handles returned as looked up, in the order of
\* the names.
get_services_AsAsked(services, names) ==
    IF names = <<>> THEN [err |-> "none", services |-> services]
    ELSE LET unsorted == [i \in 1..Len(names) |-> get_service(services, names[i])]
         IN  IF InSeq(0, unsorted)
             THEN [err |-> "NoSuchService", services |-> <<>>]
             ELSE [err |-> "none",
                   services |-> [i \in 1..Len(unsorted) |->
                                    services[CHOOSE p \in 1..Len(services) :
                                                 services[p].id = unsorted[i]]]]

\* Project.get_services (lines 91-95): the handles selected, or the
\* exception raised.
get_services(services, names) ==
    IF names = <<>> THEN [err |-> "none", services |-> services]
    ELSE LET unsorted == [i \in 1..Len(names) |-> get_service(services, names[i])]
             Requested(s) == InSeq(s.id, unsorted)
         IN  IF InSeq(0, unsorted)
             THEN [err |-> "NoSuchService", services |-> <<>>]
             ELSE [err |-> "none", services |-> SelectSeq(services, Requested)]

BulkOps == {"recreate_containers", "start", "stop", "kill", "build",
            "remove_stopped", "containers"}
\* The bulk calls whose loop body is one call of the method of the same name.
PlainOps == {"start", "stop", "kill", "remove_stopped"}

Call(s, method, ret) == [svc |-> s.id, method |-> method, ret |-> ret]

\* A bulk call is made on a built Project: get_services picks the services.
BulkCall ==
    /\ pc = "ready"
    /\ \E o \in BulkOps, names \in SeqsUpTo(Names \cup {Missing}, MaxNames) :
         LET r == get_services(project, names)
         IN  /\ op' = o
             /\ service_names' = names
             /\ selected' = r.services
             /\ outcome' = IF r.err = "none" THEN "running" ELSE r.err
             /\ pc' = IF r.err = "none" THEN "bulk" ELSE "ended"
    /\ idx' = 0
    /\ calls' = <<>>
    /\ old' = <<>>
    /\ new' = <<>>
    /\ l' = <<>>
    /\ UNCHANGED <<given, service_dicts, err, sortVars, ordered, project>>

\* The exception, were it caught and the loop gone on with.
Raise_Continue ==
    /\ outcome' = "ServiceError"
    /\ idx' = idx + 1
    /\ UNCHANGED pc

\* The exception of a service's method leaves the bulk call at once.
Raise ==
    /\ outcome' = "ServiceError"
    /\ pc' = "ended"
    /\ UNCHANGED idx

Proceed ==
    /\ idx' = idx + 1
    /\ UNCHANGED <<outcome, pc>>

\* start, stop, kill, remove_stopped: one iteration (lines 114-124, 133-135).
PlainStep ==
    /\ pc = "bulk"
    /\ op \in PlainOps
    /\ idx < Len(selected)
    /\ \E ok \in BOOLEAN :
         /\ calls' = Append(calls, Call(selected[idx + 1], op, IF ok THEN "ok" ELSE "raise"))
         /\ IF ok THEN Proceed ELSE Raise
    /\ UNCHANGED <<given, service_dicts, err, sortVars, ordered, project,
                   op, service_names, selected, old, new, l>>

\* build: one iteration (lines 127-131); a service that can not be built is
\* skipped.
BuildStep ==
    /\ pc = "bulk"
    /\ op = "build"
    /\ idx < Len(selected)
    /\ \E can_be_built \in BOOLEAN, ok \in BOOLEAN :
         LET service == selected[idx + 1]
             asked == Append(calls, Call(service, "can_be_built",
                                         IF can_be_built THEN "yes" ELSE "no"))
         IN  IF can_be_built
             THEN /\ calls' = Append(asked, Call(service, "build",
                                                 IF ok THEN "ok" ELSE "raise"))
                  /\ IF ok THEN Proceed ELSE Raise
             ELSE /\ ok
                  /\ calls' = asked
                  /\ Proceed
    /\ UNCHANGED <<given, service_dicts, err, sortVars, ordered, project,
                   op, service_names, selected, old, new, l>>

\* n entries (service, container) of one service.
Tagged(service, n) == [i \in 1..n |-> service.id]

\* recreate_containers: one iteration (lines 107-110).
RecreateStep ==
    /\ pc = "bulk"
    /\ op = "recreate_containers"
    /\ idx < Len(selected)
    /\ \E ok \in BOOLEAN, s_old \in 0..MaxContainers, s_new \in 0..MaxContainers :
         LET service == selected[idx + 1]
         IN  /\ calls' = Append(calls, Call(service, op, IF ok THEN "ok" ELSE "raise"))
             /\ IF ok
                THEN /\ old' = old \o Tagged(service, s_old)
                     /\ new' = new \o Tagged(service, s_new)
                     /\ Proceed
                ELSE /\ s_old = 0
                     /\ s_new = 0
                     /\ UNCHANGED <<old, new>>
                     /\ Raise
    /\ UNCHANGED <<given, service_dicts, err, sortVars, ordered, project,
                   op, service_names, selected, l>>

\* containers: one iteration (lines 139-141).
ContainersStep ==
    /\ pc = "bulk"
    /\ op = "containers"
    /\ idx < Len(selected)
    /\ \E ok \in BOOLEAN, n \in 0..MaxContainers :
         LET service == selected[idx + 1]
         IN  /\ calls' = Append(calls, Call(service, op, IF ok THEN "ok" ELSE "raise"))
             /\ IF ok
                THEN /\ l' = l \o Tagged(service, n)
                     /\ Proceed
                ELSE /\ n = 0
                     /\ UNCHANGED l
                     /\ Raise
    /\ UNCHANGED <<given, service_dicts, err, sortVars, ordered, project,
                   op, service_names, selected, old, new>>

\* The loop of a bulk call is over: the call returns.
BulkReturn ==
    /\ pc = "bulk"
    /\ idx = Len(selected)
    /\ outcome' = "returned"
    /\ pc' = "ended"
    /\ UNCHANGED <<given, service_dicts, err, sortVars, ordered, project,
                   op, service_names, selected, idx, calls, old, new, l>>

\* The caller has the result or the exception of the bulk call; the Project
\* is ready for the next call.
BulkEnd ==
    /\ pc = "ended"
    /\ pc' = "ready"
    /\ op' = "none"
    /\ service_names' = <<>>
    /\ selected' = <<>>
    /\ idx' = 0
    /\ calls' = <<>>
    /\ outcome' = "none"
    /\ old' = <<>>
    /\ new' = <<>>
    /\ l' = <<>>
    /\ UNCHANGED <<given, service_dicts, err, sortVars, ordered, project>>

\* ---------------------------------------------------------- specifications
SortNext == SortEnter \/ SortStep \/ SortReturn

\* sort_service_dicts alone; the code runs to its end, so each step that is
\* possible is taken.
SortSpec == Init /\ [][SortNext]_vars /\ WF_vars(SortNext)

BuildNext == SortEnter \/ SortStep \/ SortReturn \/ FromDictsStep \/ FromDictsReturn

\* Project.from_dicts, from the call to the Project returned.
BuildSpec == Init /\ [][BuildNext]_vars

Next ==
    \/ SortEnter
    \/ SortStep
    \/ SortReturn
    \/ FromDictsStep
    \/ FromDictsReturn
    \/ BulkCall
    \/ PlainStep
    \/ BuildStep
    \/ RecreateStep
    \/ ContainersStep
    \/ BulkReturn
    \/ BulkEnd

Spec == Init /\ [][Next]_vars

\* ------------------------------------------------ properties of the batch
NamesOf(dicts) == [i \in 1..Len(dicts) |-> dicts[i].name]
\* Position of the dict bearing the name, 0 when there is none.
PosOf(dicts, name) == FindDict(dicts, name)
\* Every link names a dict of the batch.
LinksPresent(b) == \A i \in 1..Len(b) : \A k \in 1..Len(b[i].links) :
                       PosOf(b, b[i].links[k]) # 0
HasDangling(b) == ~LinksPresent(b)
HasSelfLink(b) == \E i \in 1..Len(b) : InSeq(b[i].name, b[i].links)
HasMutualPair(b) == \E i, j \in 1..Len(b) :
                       /\ i # j
                       /\ InSeq(b[j].name, b[i].links)
                       /\ InSeq(b[i].name, b[j].links)
\* The names the dict bearing name links to.
Targets(b, name) == UNION {Range(b[i].links) : i \in {j \in 1..Len(b) : b[j].name = name}}
RECURSIVE ReachIn(_, _, _)
\* The names reached from the set S of names in 1..n links.
ReachIn(b, S, n) ==
    IF n = 0 THEN {}
    ELSE LET step == UNION {Targets(b, nm) : nm \in S}
         IN  step \cup ReachIn(b, step, n - 1)
HasCycle(b) == \E i \in 1..Len(b) : b[i].name \in ReachIn(b, {b[i].name}, Len(b))
Valid(b) == LinksPresent(b) /\ ~HasSelfLink(b) /\ ~HasCycle(b)
\* In the order of names, every link target of every dict of b that is
\* listed comes before the dict.
RespectsLinks(order, b) ==
    \A i \in 1..Len(b) : \A k \in 1..Len(b[i].links) :
        LET p == CHOOSE q \in 0..Len(order) :
                    IF InSeq(b[i].name, order)
                    THEN q > 0 /\ order[q] = b[i].name
                    ELSE q = 0
        IN  p # 0 => \E q \in 1..(p - 1) : order[q] = b[i].links[k]
\* Each element of b occurs exactly once in s and s has nothing else.
IsPermutation(s, b) ==
    /\ Len(s) = Len(b)
    /\ \A i \in 1..Len(b) : Cardinality({j \in 1..Len(s) : s[j] = b[i]}) = 1

\* sort_service_dicts has just returned.
SortReturned == pc = "from_dicts" /\ project = <<>>
SortRaised == pc = "raised" /\ err \in {"DependencyError", "StopIteration"}
InSort == pc \in {"sort_enter", "sort_loop"}

\* ----------------------------------------------------------------- claims
\* C1: for a valid batch (links present, no self-link, acyclic) in any input
\* order, the order sort_service_dicts returns has every link target
\* before the dict that links to it; in particular A, B (links A),
\* C (links B) in any of the six input orders come out as A, B, C.
C1_DependencyOrder ==
    (SortReturned /\ Valid(given)) => RespectsLinks(NamesOf(ordered), given)

\* C2: when sort_service_dicts returns on a batch whose links all name
\* dicts of the batch, what it returns is a permutation of the input.
C2_Permutation ==
    (SortReturned /\ LinksPresent(given)) => IsPermutation(ordered, given)

\* A dict is the link target of two dicts and is listed twice by one.
C2_Witness ==
    /\ SortReturned
    /\ \E i, j, t \in 1..Len(given) :
         /\ i # j
         /\ InSeq(given[t].name, given[j].links)
         /\ Cardinality({k \in 1..Len(given[i].links) :
                             given[i].links[k] = given[t].name}) >= 2

\* C3: a batch with all links present in which a dict links to itself, or
\* two dicts link to each other, never gets an order: sort_service_dicts
\* ends with DependencyError.
C3_DependencyError ==
    (LinksPresent(given) /\ (HasSelfLink(given) \/ HasMutualPair(given)))
        => (InSort \/ (pc = "raised" /\ err = "DependencyError"))

\* Two dicts link to each other, none to itself, beside a third dict:
\* DependencyError was raised.
C3_Witness ==
    /\ pc = "raised"
    /\ err = "DependencyError"
    /\ LinksPresent(given)
    /\ HasMutualPair(given)
    /\ ~HasSelfLink(given)
    /\ Len(given) = 3

\* C7: a batch with a link to a name no dict bears never gets an order:
\* sort_service_dicts ends with an exception.
C7_DanglingLinkRaises ==
    HasDangling(given) => (InSort \/ (SortRaised /\ ordered = <<>>))

\* The lookup of a missing link target ended the sort.
C7_Witness ==
    /\ pc = "raised"
    /\ err = "StopIteration"
    /\ HasDangling(given)
    /\ ~HasSelfLink(given)

\* C9: when sort_service_dicts returns, the dicts with links are in the
\* output in the reverse of their input order, whatever they link to.
C9_ReverseOfInput ==
    SortReturned => SelectSeq(ordered, HasLinks) = Reverse(SelectSeq(given, HasLinks))

\* Three dicts with links were put out in reverse.
C9_Witness ==
    /\ SortReturned
    /\ Len(SelectSeq(given, HasLinks)) = 3
    /\ SelectSeq(ordered, HasLinks) = Reverse(SelectSeq(given, HasLinks))

\* A cycle of three or more links, no self-link, no mutual pair, all
\* targets present.
LongCycleOnly(b) ==
    /\ LinksPresent(b)
    /\ HasCycle(b)
    /\ ~HasSelfLink(b)
    /\ ~HasMutualPair(b)

\* What is popped is popped once: the dicts still to pop and the dicts with
\* links already in sorted_services make up the dicts with links of the
\* input.  A batch that has only a long cycle is not refused: a permutation
\* is returned, with some dict before one of its link targets.
C10_State ==
    /\ (pc = "sort_loop" \/ SortReturned) =>
          dependent_services \o Reverse(SelectSeq(sorted_services, HasLinks))
              = SelectSeq(given, HasLinks)
    /\ SortReturned => dependent_services = <<>>
    /\ pc = "raised" => ~LongCycleOnly(given)
    /\ (SortReturned /\ LongCycleOnly(given)) =>
          /\ IsPermutation(ordered, given)
          /\ ~RespectsLinks(NamesOf(ordered), given)

\* C10: sort_service_dicts terminates on every batch, popping each dict
\* with links once; a batch whose only cycles have three or more links is
\* neither looped on nor refused but returned as a permutation that puts
\* some dict before one of its link targets.
C10_Terminates == []C10_State /\ <>(SortReturned \/ SortRaised)

\* A batch with a three-cycle was returned.
C10_Witness == SortReturned /\ LongCycleOnly(given)

\* --------------------------------------------------- claims on the Project
\* The for loop of from_dicts has made every dict of the order a Service.
BuildComplete == pc = "from_dicts" /\ Len(project) = Len(ordered) /\ ordered # <<>>

\* Every link of every service is the handle get_service returns for the
\* name the dict listed.
LinksAreHandles(b) ==
    \A p \in 1..Len(project) :
        LET d == b[PosOf(b, project[p].name)]
        IN  /\ Len(project[p].links) = Len(d.links)
            /\ \A k \in 1..Len(d.links) :
                  project[p].links[k] = get_service(project, d.links[k])

\* C4: for a valid batch in any input order from_dicts ends without
\* NoSuchService, and the links of each service of the Project are the
\* handles get_service returns for the names linked.
C4_ValidBatchBuilds ==
    Valid(given) =>
        /\ ~(pc = "raised" /\ err = "NoSuchService")
        /\ BuildComplete => LinksAreHandles(given)

\* C8: in every Project from_dicts builds, whole or partial, the links of a
\* service are handles at earlier positions of project.services; the names
\* the dicts listed come earlier too, so an order that breaks this yields
\* no Project.
C8_LinksEarlier ==
    /\ \A p \in 1..Len(project) : \A k \in 1..Len(project[p].links) :
          \E q \in 1..(p - 1) : project[q].id = project[p].links[k]
    /\ pc = "from_dicts" => RespectsLinks(NamesOf(project), given)

\* A Project of three services was returned, a chain of links.
C8_Witness ==
    /\ pc = "ready"
    /\ Len(project) = 3
    /\ project[2].links = <<project[1].id>>
    /\ project[3].links = <<project[2].id>>

\* The names asked for all exist in the Project.
AllExist == \A i \in 1..Len(service_names) : get_service(project, service_names[i]) # 0
WasAskedFor(s) == InSeq(s.name, service_names)

\* C5: for a non-empty list of names that all exist, get_services returns
\* the services asked for, each once, in the order of project.services,
\* whatever the order of the names and however often a name is given.
C5_SelectedInProjectOrder ==
    (pc \in {"bulk", "ended"} /\ service_names # <<>> /\ AllExist) =>
        /\ outcome # "NoSuchService"
        /\ selected = SelectSeq(project, WasAskedFor)
        /\ \A i, j \in 1..Len(selected) : i # j => selected[i].id # selected[j].id

\* Two names were asked for in the reverse of their order in the Project.
C5_Witness ==
    /\ pc \in {"bulk", "ended"}
    /\ Len(service_names) = 2
    /\ AllExist
    /\ LET p1 == get_service(project, service_names[1])
           p2 == get_service(project, service_names[2])
       IN  \E i, j \in 1..Len(project) :
              i < j /\ project[i].id = p2 /\ project[j].id = p1

\* The services of the calls made with this method, in the order of the calls.
CalledOn(method) ==
    LET Is(c) == c.method = method
        cs == SelectSeq(calls, Is)
    IN  [i \in 1..Len(cs) |-> cs[i].svc]
IdsOf(handles) == [i \in 1..Len(handles) |-> handles[i].id]
Failed == pc = "ended" /\ outcome = "ServiceError"
\* Nothing but the last call raised, and that one did.
OnlyLastRaised ==
    /\ calls # <<>>
    /\ Last(calls).ret = "raise"
    /\ \A i \in 1..(Len(calls) - 1) : calls[i].ret # "raise"

\* Where the handle of this identity sits in project.services.
PosInProject(id) == CHOOSE p \in 1..Len(project) : project[p].id = id

\* C6 as stated: when the operation fails on the k-th selected service, it
\* has been invoked on exactly the first k selected services, in order.
C6_InvokedOnFirstK ==
    Failed => CalledOn(op) = IdsOf(SubSeq(selected, 1, idx + 1))

\* The services among the first k selected that the loop calls the
\* operation on: all, but for build those whose can_be_built() was true.
Reached(k) ==
    LET Built(c) == c.method = "can_be_built" /\ c.ret = "yes"
        yes == SelectSeq(calls, Built)
    IN  IF op = "build" THEN [i \in 1..Len(yes) |-> yes[i].svc]
        ELSE IdsOf(SubSeq(selected, 1, k))

\* C6 amended: the operation is invoked on the selected services one at a
\* time in the order of project.services, build passing over the services
\* that can not be built; when it fails on the k-th selected service the
\* call ends there: it was invoked on those of the first k selected
\* services that were not passed over, on none after, and no other call
\* was made on any service.
C6_StopsAtFailure ==
    /\ pc \in {"bulk", "ended"} /\ outcome # "NoSuchService" =>
          LET k == IF Failed THEN idx + 1 ELSE idx
          IN  /\ \A i, j \in 1..Len(selected) :
                    i < j => PosInProject(selected[i].id) < PosInProject(selected[j].id)
              /\ CalledOn(op) = Reached(k)
              /\ op = "build" => CalledOn("can_be_built") = IdsOf(SubSeq(selected, 1, k))
              /\ \A i \in 1..Len(calls) : calls[i].method \in {op, "can_be_built"}
              /\ Failed => OnlyLastRaised
              /\ ~Failed => \A i \in 1..Len(calls) : calls[i].ret # "raise"
    /\ outcome = "returned" => idx = Len(selected)

\* build passed over the first of three services and failed on the second.
C6_Witness ==
    /\ Failed
    /\ op = "build"
    /\ Len(selected) = 3
    /\ idx = 1
    /\ calls[1].ret = "no"
====
